---- MODULE Spec2Model ----
(***************************************************************************)
(* Model of scripts/generate_assets.py: the brand table, the drawing       *)
(* helpers and asset composers (as per-pixel functions over integer        *)
(* arithmetic), the colorset writers, save, generate and main.             *)
(*                                                                         *)
(* An image is a descriptor [fn, w, h, brand, mode]; its pixels are given  *)
(* by the operator PixelOf.  Fractions of the brand table are kept in      *)
(* millionths (Micro).                                                     *)
(***************************************************************************)
EXTENDS Integers, Sequences, FiniteSets, TLC

\* --------------------------------------------------------------- brands

Micro == 1000000

None == <<>>

BrandKeys == <<"nexuspvr", "dispatcherpvr">>

BRANDS ==
  [nexuspvr |->
     [name |-> "NexusPVR",
      assets_dir |-> "NexusPVR/Assets.xcassets",
      gradient_center |-> <<42, 107, 153>>,
      gradient_edge |-> <<15, 35, 60>>,
      recording_dot |-> <<233, 30, 99>>,
      accent_rgb |-> None,
      launch_bg_rgb |-> <<59000, 59000, 59000>>],
   dispatcherpvr |->
     [name |-> "DispatcherPVR",
      assets_dir |-> "DispatcherPVR/Assets.xcassets",
      gradient_center |-> <<55, 130, 115>>,
      gradient_edge |-> <<12, 38, 33>>,
      recording_dot |-> <<217, 72, 72>>,
      accent_rgb |-> <<263000, 561000, 498000>>,
      launch_bg_rgb |-> <<71000, 71000, 78000>>]]

CRT_BG == <<14, 31, 21>>

\* int(c * 255) for a fraction c given in millionths
Scale255(c) == (c * 255) \div Micro

\* tuple(int(c * 255) for c in brand["launch_bg_rgb"])
launch_bg_255(brand) ==
  [i \in 1..3 |-> Scale255(brand.launch_bg_rgb[i])]

\* ------------------------------------------------- exact integer helpers

Abs(n) == IF n < 0 THEN -n ELSE n
Min(a, b) == IF a < b THEN a ELSE b
Max(a, b) == IF a > b THEN a ELSE b

RECURSIVE Gcd(_, _)
Gcd(a, b) == IF b = 0 THEN a ELSE Gcd(b, a % b)

\* a float scale factor as the fraction n/d in lowest terms
Frac(n, d) == [n |-> n \div Gcd(n, d), d |-> d \div Gcd(n, d)]

\* int(k * s) for k = kn/kd and the scale s; the products the script forms at
\* its own sizes are exact in floating point
IntOf(kn, kd, s) == (kn * s.n) \div (kd * s.d)

\* Naturals beyond the machine word, as little-endian limbs to base Limb
Limb == 32768

RECURSIVE BigNorm(_)
BigNorm(A) ==
  IF A # <<>> /\ A[Len(A)] = 0 THEN BigNorm(SubSeq(A, 1, Len(A) - 1)) ELSE A

Big(n) ==
  BigNorm(<<n % Limb, (n \div Limb) % Limb, n \div (Limb * Limb)>>)

RECURSIVE BigMulSmall(_, _, _)
BigMulSmall(A, n, carry) ==
  IF A = <<>> THEN (IF carry = 0 THEN <<>> ELSE <<carry>>)
  ELSE LET t == A[1] * n + carry
       IN <<t % Limb>> \o BigMulSmall(Tail(A), n, t \div Limb)

RECURSIVE BigAdd(_, _, _)
BigAdd(A, B, carry) ==
  IF A = <<>> /\ B = <<>> THEN (IF carry = 0 THEN <<>> ELSE <<carry>>)
  ELSE LET a == IF A = <<>> THEN 0 ELSE A[1]
           b == IF B = <<>> THEN 0 ELSE B[1]
           t == a + b + carry
       IN <<t % Limb>>
          \o BigAdd(IF A = <<>> THEN A ELSE Tail(A),
                    IF B = <<>> THEN B ELSE Tail(B), t \div Limb)

\* A * n for 0 <= n < Limb * Limb
BigTimes(A, n) ==
  BigNorm(BigAdd(BigMulSmall(A, n % Limb, 0),
                 <<0>> \o BigMulSmall(A, n \div Limb, 0), 0))

RECURSIVE BigLeqFrom(_, _, _)
BigLeqFrom(A, B, j) ==
  IF j = 0 THEN TRUE
  ELSE IF A[j] # B[j] THEN A[j] < B[j] ELSE BigLeqFrom(A, B, j - 1)

\* A <= B, both normalised
BigLeq(A, B) ==
  IF Len(A) # Len(B) THEN Len(A) < Len(B) ELSE BigLeqFrom(A, B, Len(A))

\* m^5 * b^2 and k^5 * a^2
Pow5Sq(m, b) ==
  BigTimes(BigTimes(BigTimes(BigTimes(BigTimes(BigTimes(Big(m), m), m), m), m),
                    b), b)

\* ------------------------------------------------------ drawing helpers

\* The least m in lo..hi with m^5 * b^2 >= ka (hi qualifies), by bisection:
\* ceil(k * (a/b)^0.4) when ka = k^5 * a^2
RECURSIVE CeilRoot(_, _, _, _)
CeilRoot(lo, hi, b, ka) ==
  IF lo = hi THEN lo
  ELSE LET mid == (lo + hi) \div 2
       IN IF BigLeq(ka, Pow5Sq(mid, b)) THEN CeilRoot(lo, mid, b, ka)
          ELSE CeilRoot(mid + 1, hi, b, ka)

\* The greatest m in lo..hi with m^5 * b^2 <= ka (lo qualifies):
\* floor(k * (a/b)^0.4)
RECURSIVE FloorRoot(_, _, _, _)
FloorRoot(lo, hi, b, ka) ==
  IF lo = hi THEN lo
  ELSE LET mid == (lo + hi + 1) \div 2
       IN IF BigLeq(Pow5Sq(mid, b), ka) THEN FloorRoot(mid, hi, b, ka)
          ELSE FloorRoot(lo, mid - 1, b, ka)

\* int(c + (e - c) * ratio), ratio = min(dist / max_dist, 1.0) ** 0.8 with
\* (dist / max_dist)^2 = a/b: int truncates toward zero, and the value lies
\* between the two colours, hence is >= 0
GradientChannel(c, e, a, b) ==
  LET k == Abs(e - c)
      ka == Pow5Sq(k, Min(a, b))
  IN IF e <= c THEN c - CeilRoot(0, k, b, ka) ELSE c + FloorRoot(0, k, b, ka)

\* create_radial_gradient with the two colours taken in the wrong order
create_radial_gradient_swapped(width, height, center_color, edge_color, x, y) ==
  LET a == (2 * x - width) * (2 * x - width)
             + (2 * y - height) * (2 * y - height)
      b == width * width + height * height
  IN [ch \in 1..3 |-> GradientChannel(edge_color[ch], center_color[ch], a, b)]

\* pixels[x, y] of create_radial_gradient(width, height, center_color,
\* edge_color); distances are doubled to keep cx = width / 2 integral
create_radial_gradient(width, height, center_color, edge_color, x, y) ==
  LET a == (2 * x - width) * (2 * x - width)
             + (2 * y - height) * (2 * y - height)
      b == width * width + height * height
  IN [ch \in 1..3 |-> GradientChannel(center_color[ch], edge_color[ch], a, b)]

\* A pixel: the layer it comes from, and its colour and alpha where the
\* script's own arithmetic fixes them.  Where the imaging library's
\* rasteriser decides (within a pixel of an outline, or under a blur) only
\* the layer is recorded.
Px(layer, rgb, alpha) == [layer |-> layer, rgb |-> rgb, alpha |-> alpha]
Unfixed(layer) == [layer |-> layer]
Transparent == Px("transparent", <<0, 0, 0>>, 0)

\* How a drawn shape covers a pixel: "in", "out", or "edge" (less than a
\* pixel from the outline).
Disc(dx, dy, r, unit) ==
  LET d2 == dx * dx + dy * dy
  IN IF r >= unit /\ d2 <= (r - unit) * (r - unit) THEN "in"
     ELSE IF d2 >= (r + unit) * (r + unit) THEN "out"
     ELSE "edge"

\* ImageDraw.rounded_rectangle([x0, y0, x1, y1], radius, fill): the box is
\* inclusive, the corner arcs have their centres radius inside the box
rounded_rectangle(x0, y0, x1, y1, radius, x, y) ==
  IF x < x0 \/ x > x1 \/ y < y0 \/ y > y1 THEN "out"
  ELSE LET cx == IF x < x0 + radius THEN x0 + radius
                 ELSE IF x > x1 - radius THEN x1 - radius ELSE x
           cy == IF y < y0 + radius THEN y0 + radius
                 ELSE IF y > y1 - radius THEN y1 - radius ELSE y
       IN IF cx = x \/ cy = y THEN "in" ELSE Disc(x - cx, y - cy, radius, 1)

\* signed area of (A, B, P), twice
Cross(A, B, P) ==
  (B[1] - A[1]) * (P[2] - A[2]) - (B[2] - A[2]) * (P[1] - A[1])

\* P is at least `unit` on the inner side of edge A->B (side = 1), at least
\* `unit` on the outer side (-1), or closer to the line than that (0);
\* sgn is the sign Cross takes inside the polygon
EdgeSide(A, B, P, sgn, unit) ==
  LET e == sgn * Cross(A, B, P)
      len == Abs(B[1] - A[1]) + Abs(B[2] - A[2])
  IN IF e >= len * unit THEN 1 ELSE IF e <= -(len * unit) THEN -1 ELSE 0

\* ImageDraw.polygon of a triangle
Triangle(A, B, C, P, unit) ==
  LET sgn == IF Cross(A, B, C) >= 0 THEN 1 ELSE -1
      s1 == EdgeSide(A, B, P, sgn, unit)
      s2 == EdgeSide(B, C, P, sgn, unit)
      s3 == EdgeSide(C, A, P, sgn, unit)
  IN IF s1 = 1 /\ s2 = 1 /\ s3 = 1 THEN "in"
     ELSE IF s1 = -1 \/ s2 = -1 \/ s3 = -1 THEN "out"
     ELSE "edge"

\* draw_play_button(draw, cx, cy, scale): lengths in units of 1/(2 * scale.d)
\* pixel, so that s/20 = 70 * scale / 20 is T = 7 * scale.n; cx2, cy2 are
\* 2 * cx, 2 * cy
draw_play_button(cx2, cy2, scale, x, y) ==
  LET T == 7 * scale.n
      P == <<(2 * x - cx2) * scale.d, (2 * y - cy2) * scale.d>>
      px == -(3 * T)
  IN Triangle(<<px - 9 * T, -(12 * T)>>, <<px - 9 * T, 12 * T>>,
              <<px + 11 * T, 0>>, P, 2 * scale.d)

\* draw_recording_dot(draw, cx, cy, scale, dot_color), same units
draw_recording_dot(cx2, cy2, scale, x, y) ==
  LET r == 24 * scale.n
      dx == 110 * scale.n
      dy == -(90 * scale.n)
      P == <<(2 * x - cx2) * scale.d, (2 * y - cy2) * scale.d>>
  IN Disc(P[1] - dx, P[2] - dy, r, 2 * scale.d)

\* the play button, then the dot, drawn over the pixel `under`
Foreground(cx2, cy2, scale, dot_color, under, x, y) ==
  LET dot == draw_recording_dot(cx2, cy2, scale, x, y)
      play == draw_play_button(cx2, cy2, scale, x, y)
  IN IF dot = "in" THEN Px("dot", dot_color, 255)
     ELSE IF dot = "edge" THEN Unfixed("edge")
     ELSE IF play = "in" THEN Px("play", <<255, 255, 255>>, 255)
     ELSE IF play = "edge" THEN Unfixed("edge")
     ELSE under

\* the gradient pasted without its mask
RoundedGradient_nomask(size, radius, brand, outside, x, y) ==
  Px("gradient",
     create_radial_gradient(size, size, brand.gradient_center,
                            brand.gradient_edge, x, y), 255)

\* the gradient pasted through the rounded-corner mask onto `outside`
RoundedGradient(size, radius, brand, outside, x, y) ==
  LET mask == rounded_rectangle(0, 0, size, size, radius, x, y)
  IN IF mask = "in"
     THEN Px("gradient",
             create_radial_gradient(size, size, brand.gradient_center,
                                    brand.gradient_edge, x, y), 255)
     ELSE IF mask = "out" THEN outside
     ELSE Unfixed("edge")

\* create_app_icon with the overlay never composited
create_app_icon_no_overlay(size, brand, x, y) ==
  RoundedGradient(size, IntOf(22, 100, Frac(size, 1)), brand,
                  Px("fill", brand.gradient_edge, 255), x, y)

\* create_app_icon(size, brand)
create_app_icon(size, brand, x, y) ==
  Foreground(size, size, Frac(size * 5, 2048), brand.recording_dot,
             RoundedGradient(size, IntOf(22, 100, Frac(size, 1)), brand,
                             Px("fill", brand.gradient_edge, 255), x, y),
             x, y)

\* create_launch_logo(size, brand)
create_launch_logo(size, brand, x, y) ==
  Foreground(size, size, Frac(size, 400), brand.recording_dot,
             RoundedGradient(size, IntOf(22, 100, Frac(size, 1)), brand,
                             Transparent, x, y),
             x, y)

\* create_tvos_back(width, height, brand)
create_tvos_back(width, height, brand, x, y) ==
  Px("gradient",
     create_radial_gradient(width, height, brand.gradient_center,
                            brand.gradient_edge, x, y), 255)

\* create_tvos_front(width, height, brand)
create_tvos_front(width, height, brand, x, y) ==
  Foreground(width, height, Frac(width, 400), brand.recording_dot,
             Transparent, x, y)

InBox(box, x, y) ==
  box[1] <= x /\ x <= box[3] /\ box[2] <= y /\ y <= box[4]

\* create_shelf_image(width, height, brand): outside the square the blurred
\* glow is pasted into, the canvas keeps bg_color; the icon and its
\* foreground lie inside that square
create_shelf_image(width, height, brand, x, y) ==
  LET icon_h == IntOf(6, 10, Frac(height, 1))
      glow_size == IntOf(14, 10, Frac(icon_h, 1))
      gx == (width - glow_size) \div 2
      gy == (height - glow_size) \div 2
  IN IF InBox(<<gx, gy, gx + glow_size - 1, gy + glow_size - 1>>, x, y)
     THEN Unfixed("glow")
     ELSE Px("bg", launch_bg_255(brand), 255)

\* ---------------------------------------------------------------- CRT TV

\* rec_r of _draw_crt_on
crt_rec_r(s) ==
  IF IntOf(200, 1, s) <= 32 THEN Max(IntOf(2, 1, s), 1)
  ELSE Max(IntOf(3, 1, s), 1)

\* kr with no floor on the small-size branch
crt_kr_nofloor(s) ==
  IF IntOf(200, 1, s) <= 32 THEN IntOf(3, 1, s) ELSE Max(IntOf(4, 1, s), 2)

\* kr of _draw_crt_on
crt_kr(s) ==
  IF IntOf(200, 1, s) <= 32 THEN Max(IntOf(3, 1, s), 1)
  ELSE Max(IntOf(4, 1, s), 2)

\* the box around ImageDraw.ellipse([cx - r, cy - r, cx + r, cy + r])
EllipseBox(cx, cy, r) == <<cx - r, cy - r, cx + r, cy + r>>

\* a box around ImageDraw.line([p, q], width)
LineBox(p, q, width) ==
  <<Min(p[1], q[1]) - width, Min(p[2], q[2]) - width,
    Max(p[1], q[1]) + width, Max(p[2], q[2]) + width>>

\* boxes around everything _draw_crt_on draws besides the background fill
crt_boxes(width, height, s) ==
  LET ox == (width - IntOf(200, 1, s)) \div 2
      oy == (height - IntOf(200, 1, s)) \div 2
      X(k) == ox + IntOf(k, 1, s)
      Y(k) == oy + IntOf(k, 1, s)
      sx1 == X(40)
      sy1 == Y(55)
      sx2 == X(145)
      sy2 == Y(135)
      scx == (sx1 + sx2) \div 2
      scy == (sy1 + sy2) \div 2
      ts == IntOf(108, 10, s) + 2
      aw == Max(IntOf(25, 10, s), 1)
      tip_r == Max(IntOf(25, 10, s), 1)
      lw == Max(IntOf(3, 1, s), 1)
      fw == Max(IntOf(4, 1, s), 2)
  IN { <<X(30), Y(45), X(170), Y(155)>>,                      \* body, bezel
       <<sx1, sy1, sx2, sy2>>,                         \* screen, scan lines
       <<scx - ts, scy - ts, scx + ts, scy + ts>>,         \* play triangle
       EllipseBox(X(155), Y(60), crt_rec_r(s)),                   \* REC dot
       EllipseBox(X(155), Y(110), crt_kr(s)),                       \* knobs
       EllipseBox(X(155), Y(130), crt_kr(s)),
       LineBox(<<X(70), Y(45)>>, <<X(50), Y(18)>>, aw),          \* antennas
       LineBox(<<X(130), Y(45)>>, <<X(150), Y(18)>>, aw),
       EllipseBox(X(50), Y(18), tip_r),
       EllipseBox(X(150), Y(18), tip_r),
       LineBox(<<X(55), Y(155)>>, <<X(45), Y(175)>>, lw),            \* legs
       LineBox(<<X(145), Y(155)>>, <<X(155), Y(175)>>, lw),
       LineBox(<<X(38), Y(175)>>, <<X(52), Y(175)>>, fw),            \* feet
       LineBox(<<X(148), Y(175)>>, <<X(162), Y(175)>>, fw) }

\* _draw_crt_on(draw, width, height, s, include_bg) over a canvas whose
\* pixel was `under`
_draw_crt_on(width, height, s, include_bg, under, x, y) ==
  IF \E box \in crt_boxes(width, height, s) : InBox(box, x, y)
  THEN Unfixed("crt")
  ELSE IF include_bg THEN Px("bg", CRT_BG, 255) ELSE under

\* the icon on the brand's launch background, the drawing without its fill
create_crt_icon_launch_bg(size, brand, x, y) ==
  _draw_crt_on(size, size, Frac(size, 200), FALSE,
               Px("canvas", launch_bg_255(brand), 255), x, y)

\* create_crt_icon(size, brand)
create_crt_icon(size, brand, x, y) ==
  _draw_crt_on(size, size, Frac(size, 200), TRUE, Px("canvas", CRT_BG, 255),
               x, y)

\* create_crt_tvos_back(width, height, brand)
create_crt_tvos_back(width, height, brand, x, y) == Px("canvas", CRT_BG, 255)

\* create_crt_tvos_front(width, height, brand)
create_crt_tvos_front(width, height, brand, x, y) ==
  _draw_crt_on(width, height, Frac(Min(width, height), 200), FALSE,
               Transparent, x, y)

\* create_crt_launch_logo(size, brand)
create_crt_launch_logo(size, brand, x, y) ==
  _draw_crt_on(size, size, Frac(size, 200), FALSE, Transparent, x, y)

\* create_crt_shelf_image(width, height, brand)
create_crt_shelf_image(width, height, brand, x, y) ==
  _draw_crt_on(width, height, Frac(Min(width, height) * 6, 2000), TRUE,
               Px("canvas", launch_bg_255(brand), 255), x, y)

\* ------------------------------------------------------ image descriptors

Img(fn, w, h, key, mode) ==
  [fn |-> fn, w |-> w, h |-> h, brand |-> key, mode |-> mode]

IOError == [err |-> "IOError"]

VhsComposers ==
  {"create_vhs_icon", "create_vhs_tvos_front", "create_vhs_launch_logo",
   "create_vhs_shelf_image"}

\* _load_vhs_source: Image.open raises when the file is missing or unreadable
_load_vhs_source(vhs_ok) == IF vhs_ok THEN "vhs" ELSE "IOError"

ModeOf(fn) ==
  IF fn \in {"create_app_icon", "create_crt_icon", "create_vhs_icon",
             "create_tvos_back", "create_crt_tvos_back", "launch_bg",
             "create_shelf_image", "create_crt_shelf_image",
             "create_vhs_shelf_image"}
  THEN "RGB" ELSE "RGBA"

\* A composer call: the image it returns, or the error it raises.
Compose(fn, w, h, key, vhs_ok) ==
  IF fn \in VhsComposers /\ _load_vhs_source(vhs_ok) = "IOError"
  THEN IOError
  ELSE Img(fn, w, h, key, ModeOf(fn))

\* ------------------------------------------------------------- generate

is_crt(key) == key = "dispatcherpvr"

icon_sizes ==
  << <<"AppIcon-1024.png", 1024>>, <<"AppIcon-512@2x.png", 1024>>,
     <<"AppIcon-512.png", 512>>, <<"AppIcon-256@2x.png", 512>>,
     <<"AppIcon-256.png", 256>>, <<"AppIcon-128@2x.png", 256>>,
     <<"AppIcon-128.png", 128>>, <<"AppIcon-32@2x.png", 64>>,
     <<"AppIcon-32.png", 32>>, <<"AppIcon-16@2x.png", 32>>,
     <<"AppIcon-16.png", 16>> >>

IconSizeSet == {icon_sizes[i][2] : i \in 1..Len(icon_sizes)}

launch_logo_sizes ==
  << <<"LaunchLogo.png", 120>>, <<"LaunchLogo@2x.png", 240>>,
     <<"LaunchLogo@3x.png", 360>> >>

launch_bg_sizes ==
  << <<"LaunchBG.png", 120>>, <<"LaunchBG@2x.png", 240>>,
     <<"LaunchBG@3x.png", 360>> >>

tvos_sizes ==
  << <<400, 240, "icon_400x240.png">>, <<800, 480, "icon_800x480.png">> >>

Step(dir, file, fn, w, h, force_rgb) ==
  [dir |-> dir, file |-> file, fn |-> fn, w |-> w, h |-> h,
   force_rgb |-> force_rgb]

\* the icon of the CRT brand dispatched to the VHS composer
IconFn_vhs(key) == IF is_crt(key) THEN "create_vhs_icon" ELSE "create_app_icon"

\* the composer each section of generate dispatches to
IconFn(key) == IF is_crt(key) THEN "create_crt_icon" ELSE "create_app_icon"
LogoFn(key) ==
  IF is_crt(key) THEN "create_crt_launch_logo" ELSE "create_launch_logo"
BackFn(key) == IF is_crt(key) THEN "create_crt_tvos_back" ELSE "create_tvos_back"
FrontFn(key) ==
  IF is_crt(key) THEN "create_crt_tvos_front" ELSE "create_tvos_front"
ShelfFn(key) ==
  IF is_crt(key) THEN "create_crt_shelf_image" ELSE "create_shelf_image"

TvLayers(key, stack, w, h, tag) ==
  << Step(<<"tv.brandassets", stack, "Back.imagestacklayer", "Content.imageset">>,
          tag, BackFn(key), w, h, TRUE),
     Step(<<"tv.brandassets", stack, "Middle.imagestacklayer", "Content.imageset">>,
          tag, "create_tvos_middle", w, h, FALSE),
     Step(<<"tv.brandassets", stack, "Front.imagestacklayer", "Content.imageset">>,
          tag, FrontFn(key), w, h, FALSE) >>

\* the image saves of generate(brand_key), in program order
IconSteps(key) ==
  [i \in 1..Len(icon_sizes) |->
     Step(<<"AppIcon.appiconset">>, icon_sizes[i][1], IconFn(key),
          icon_sizes[i][2], icon_sizes[i][2], TRUE)]

LogoSteps(key) ==
  [i \in 1..Len(launch_logo_sizes) |->
     Step(<<"LaunchLogo.imageset">>, launch_logo_sizes[i][1], LogoFn(key),
          launch_logo_sizes[i][2], launch_logo_sizes[i][2], FALSE)]

BgSteps(key) ==
  [i \in 1..Len(launch_bg_sizes) |->
     Step(<<"LaunchBG.imageset">>, launch_bg_sizes[i][1], "launch_bg",
          launch_bg_sizes[i][2], launch_bg_sizes[i][2], TRUE)]

TvSteps(key) ==
  TvLayers(key, "App Icon.imagestack", tvos_sizes[1][1], tvos_sizes[1][2],
           tvos_sizes[1][3])
  \o TvLayers(key, "App Icon.imagestack", tvos_sizes[2][1], tvos_sizes[2][2],
              tvos_sizes[2][3])

TvStoreSteps(key) ==
  TvLayers(key, "App Icon - App Store.imagestack", 1280, 768,
           "icon_1280x768.png")

ShelfSteps(key) ==
  << Step(<<"tv.brandassets", "Top Shelf Image.imageset">>,
          "shelf_1920x720.png", ShelfFn(key), 1920, 720, TRUE),
     Step(<<"tv.brandassets", "Top Shelf Image.imageset">>,
          "shelf_3840x1440.png", ShelfFn(key), 3840, 1440, TRUE),
     Step(<<"tv.brandassets", "Top Shelf Image Wide.imageset">>,
          "shelf_wide_2320x720.png", ShelfFn(key), 2320, 720, TRUE),
     Step(<<"tv.brandassets", "Top Shelf Image Wide.imageset">>,
          "shelf_wide_4640x1440.png", ShelfFn(key), 4640, 1440, TRUE) >>

Sections == <<"icons", "logo", "bg", "tv", "tvs", "shelf">>

SectionSteps(sec, key) ==
  CASE sec = "icons" -> IconSteps(key)
    [] sec = "logo" -> LogoSteps(key)
    [] sec = "bg" -> BgSteps(key)
    [] sec = "tv" -> TvSteps(key)
    [] sec = "tvs" -> TvStoreSteps(key)
    [] sec = "shelf" -> ShelfSteps(key)

NextSection(sec) ==
  CASE sec = "icons" -> "logo"
    [] sec = "logo" -> "bg"
    [] sec = "bg" -> "tv"
    [] sec = "tv" -> "tvs"
    [] sec = "tvs" -> "shelf"
    [] sec = "shelf" -> "accent"

\* every brand's images joined under one assets directory
PathOf_shared(key, dir, file) == <<"Assets.xcassets">> \o dir \o <<file>>

\* os.path.join(assets, dir..., file)
PathOf(key, dir, file) == <<BRANDS[key].assets_dir>> \o dir \o <<file>>


\* the launch-background fill taken from the brand table for every brand
launch_bg_fill_brand(key) == launch_bg_255(BRANDS[key])

\* the fill of the launch-background images (generate, "Launch Background")
launch_bg_fill(key) ==
  IF is_crt(key) THEN CRT_BG ELSE launch_bg_255(BRANDS[key])

\* ------------------------------------------------------ colorset writers

Digits == <<"0", "1", "2", "3", "4", "5", "6", "7", "8", "9">>

RECURSIVE IntStr(_)
IntStr(n) ==
  IF n < 10 THEN Digits[n + 1] ELSE IntStr(n \div 10) \o Digits[(n % 10) + 1]

\* two decimals instead of three
Fmt3_two(c) ==
  LET t == (c + 5000) \div 10000
      f == t % 100
  IN IntStr(t \div 100) \o "." \o Digits[(f \div 10) + 1]
       \o Digits[(f % 10) + 1]

\* f"{c:.3f}" for a fraction c >= 0 given in millionths: round to the
\* nearest thousandth, then integer part, ".", three fraction digits
Fmt3(c) ==
  LET t == (c + 500) \div 1000
      f == t % 1000
  IN IntStr(t \div 1000) \o "." \o Digits[(f \div 100) + 1]
       \o Digits[((f \div 10) % 10) + 1] \o Digits[(f % 10) + 1]

ColorEntry(rgb) ==
  [color |->
     [color_space |-> "srgb",
      components |->
        [alpha |-> "1.000", blue |-> Fmt3(rgb[3]), green |-> Fmt3(rgb[2]),
         red |-> Fmt3(rgb[1])]],
   idiom |-> "universal"]

XcodeInfo == [author |-> "xcode", version |-> 1]

\* the document write_accent_colorset dumps
accent_colorset_data(accent_rgb) ==
  IF accent_rgb = None
  THEN [colors |-> << [idiom |-> "universal"] >>, info |-> XcodeInfo]
  ELSE [colors |-> << ColorEntry(accent_rgb) >>, info |-> XcodeInfo]

\* the document write_launch_bg_colorset dumps
launch_bg_colorset_data(rgb) ==
  [colors |-> << ColorEntry(rgb) >>, info |-> XcodeInfo]

AccentPath(key) ==
  <<BRANDS[key].assets_dir, "AccentColor.colorset", "Contents.json">>

LaunchBgColorsetPath(key) ==
  <<BRANDS[key].assets_dir, "LaunchBackground.colorset", "Contents.json">>

\* ------------------------------------------------------------------ state

VARIABLES
  brand_arg,   \* args.brand
  vhs_ok,      \* whether scripts/vhs_source.png can be opened
  pc,          \* where the run stands: "main", "call", a section of
               \* generate, "accent", "launchbg", "ret", "done", "aborted"
  todo,        \* brand keys main has still to pass to generate
  cur,         \* the brand_key of the running generate call
  i,           \* index of the next save within the section
  cache,       \* generate's icon cache: pixel size -> image
  renders,     \* icon composer calls of the running generate call
  fs,          \* the files on disk: path -> content
  nwrites,     \* path -> how many times the run has written it
  out,         \* the lines printed to standard output
  failure,     \* what ended the run: "none", "write", "vhs"
  probe        \* input and result of a pure drawing function under study

vars ==
  <<brand_arg, vhs_ok, pc, todo, cur, i, cache, renders, fs, nwrites, out,
    failure, probe>>

NoProbe == [fn |-> "none"]

Partial == [partial |-> TRUE]

IsImage(content) == "fn" \in DOMAIN content
IsColorset(content) == "colors" \in DOMAIN content

Written == DOMAIN fs

Put(f, path, content) ==
  [p \in DOMAIN f \cup {path} |-> IF p = path THEN content ELSE f[p]]

Count(n, path) == IF path \in DOMAIN n THEN n[path] ELSE 0

Init ==
  /\ brand_arg \in {"nexuspvr", "dispatcherpvr", "all"}
  /\ vhs_ok \in BOOLEAN
  /\ pc = "main"
  /\ todo = <<>>
  /\ cur = "none"
  /\ i = 0
  /\ cache = <<>>
  /\ renders = 0
  /\ fs = <<>>
  /\ nwrites = <<>>
  /\ out = <<>>
  /\ failure = "none"
  /\ probe = NoProbe

\* main(): the brands the selector names, in the order of the BRANDS table
main ==
  /\ pc = "main"
  /\ todo' = IF brand_arg = "all" THEN BrandKeys ELSE <<brand_arg>>
  /\ pc' = "call"
  /\ UNCHANGED <<brand_arg, vhs_ok, cur, i, cache, renders, fs, nwrites, out,
                 failure, probe>>

\* a line of text on standard output
Line(text) == [text |-> text]

\* the icon cache kept at module level and never emptied
generate_begin_keep_cache ==
  /\ pc = "call"
  /\ todo # <<>>
  /\ cur' = Head(todo)
  /\ todo' = Tail(todo)
  /\ cache' = cache
  /\ renders' = 0
  /\ out' = out \o <<Line(BRANDS[Head(todo)].name \o " Assets"
                              \o (IF is_crt(Head(todo)) THEN " (CRT TV style)"
                                  ELSE "")),
                         Line("App Icons:")>>
  /\ pc' = "icons"
  /\ i' = 1
  /\ UNCHANGED <<brand_arg, vhs_ok, fs, nwrites, failure, probe>>

\* generate(key), up to its first save: banner, "App Icons:", empty cache
generate_begin ==
  /\ pc = "call"
  /\ todo # <<>>
  /\ cur' = Head(todo)
  /\ todo' = Tail(todo)
  /\ cache' = <<>>
  /\ renders' = 0
  /\ out' = out \o <<Line(BRANDS[Head(todo)].name \o " Assets"
                              \o (IF is_crt(Head(todo)) THEN " (CRT TV style)"
                                  ELSE "")),
                         Line("App Icons:")>>
  /\ pc' = "icons"
  /\ i' = 1
  /\ UNCHANGED <<brand_arg, vhs_ok, fs, nwrites, failure, probe>>

SectionHeader(sec) ==
  CASE sec = "logo" -> "Launch Logo:"
    [] sec = "bg" -> "Launch Background:"
    [] sec = "tv" -> "tvOS App Icon (400x240):"
    [] sec = "tvs" -> "tvOS App Store Icon (1280x768):"
    [] sec = "shelf" -> "Top Shelf Image:"
    [] sec = "accent" -> "Colorsets:"

\* save(img, path, force_rgb): what lands on disk, and the line printed
Saved(img, force_rgb) ==
  IF force_rgb /\ img.mode # "RGB" THEN [img EXCEPT !.mode = "RGB"] ELSE img

SaveLine(step, img) ==
  [file |-> step.file, w |-> img.w, h |-> img.h, mode |-> img.mode]

WriteOutcomes == {"ok", "makedirs", "save_nofile", "save_partial"}

\* the exception caught and the run carried on
Abort_continue(path, outcome, why) ==
  /\ pc' = pc
  /\ failure' = why
  /\ fs' = fs
  /\ UNCHANGED <<todo, cur, i, nwrites, out>>

\* the run dies with the exception a failed write raises
Abort(path, outcome, why) ==
  /\ pc' = "aborted"
  /\ failure' = why
  /\ fs' = IF outcome = "save_partial" THEN Put(fs, path, Partial) ELSE fs
  /\ UNCHANGED <<todo, cur, i, nwrites, out>>

\* one pass of a section's loop body after the image is composed:
\* save(img, path, force_rgb), then on to the next save or section
SaveStep(sec, step, img) ==
  LET path == PathOf(cur, step.dir, step.file)
      last == i = Len(SectionSteps(sec, cur))
  IN IF img = IOError
     THEN Abort(path, "compose", "vhs")
     ELSE \E outcome \in WriteOutcomes :
            IF outcome = "ok"
            THEN /\ fs' = Put(fs, path, Saved(img, step.force_rgb))
                 /\ nwrites' = Put(nwrites, path, Count(nwrites, path) + 1)
                 /\ out' = out \o <<SaveLine(step, Saved(img, step.force_rgb))>>
                           \o (IF last THEN <<Line(SectionHeader(NextSection(sec)))>>
                               ELSE <<>>)
                 /\ pc' = IF last THEN NextSection(sec) ELSE sec
                 /\ i' = IF last THEN 1 ELSE i + 1
                 /\ UNCHANGED <<todo, cur, failure>>
            ELSE Abort(path, outcome, "write")

\* "App Icons": render each distinct size once, save every manifest entry
GenIcons ==
  /\ pc = "icons"
  /\ LET step == IconSteps(cur)[i]
         hit == step.w \in DOMAIN cache
         img == IF hit THEN cache[step.w]
                ELSE Compose(step.fn, step.w, step.h, cur, vhs_ok)
     IN /\ cache' = IF hit \/ img = IOError THEN cache
                    ELSE Put(cache, step.w, img)
        /\ renders' = IF hit THEN renders ELSE renders + 1
        /\ SaveStep("icons", step, img)
  /\ UNCHANGED <<brand_arg, vhs_ok, probe>>

\* the sections without a cache: compose, save
GenSection(sec) ==
  /\ pc = sec
  /\ LET step == SectionSteps(sec, cur)[i]
     IN SaveStep(sec, step, Compose(step.fn, step.w, step.h, cur, vhs_ok))
  /\ UNCHANGED <<brand_arg, vhs_ok, cache, renders, probe>>

GenLaunchLogo == GenSection("logo")
GenLaunchBG == GenSection("bg")
GenTvosIcon == GenSection("tv")
GenTvosStore == GenSection("tvs")
GenTopShelf == GenSection("shelf")

\* the colorset file opened for appending instead of truncated
WriteColorset_append(path, data, next) ==
  \E outcome \in WriteOutcomes :
    IF outcome = "ok"
    THEN /\ fs' = Put(fs, path,
                      IF path \in DOMAIN fs /\ IsColorset(fs[path])
                      THEN [data EXCEPT !.colors = fs[path].colors \o data.colors]
                      ELSE data)
         /\ nwrites' = Put(nwrites, path, Count(nwrites, path) + 1)
         /\ out' = out \o << [relpath |-> <<path[2], path[3]>>] >>
         /\ pc' = next
         /\ UNCHANGED <<todo, cur, i, failure>>
    ELSE Abort(path, outcome, "write")

\* a colorset writer: makedirs, open, json.dump, print
WriteColorset(path, data, next) ==
  \E outcome \in WriteOutcomes :
    IF outcome = "ok"
    THEN /\ fs' = Put(fs, path, data)
         /\ nwrites' = Put(nwrites, path, Count(nwrites, path) + 1)
         /\ out' = out \o << [relpath |-> <<path[2], path[3]>>] >>
         /\ pc' = next
         /\ UNCHANGED <<todo, cur, i, failure>>
    ELSE Abort(path, outcome, "write")

write_accent_colorset ==
  /\ pc = "accent"
  /\ WriteColorset(AccentPath(cur),
                   accent_colorset_data(BRANDS[cur].accent_rgb), "launchbg")
  /\ UNCHANGED <<brand_arg, vhs_ok, cache, renders, probe>>

write_launch_bg_colorset ==
  /\ pc = "launchbg"
  /\ WriteColorset(LaunchBgColorsetPath(cur),
                   launch_bg_colorset_data(BRANDS[cur].launch_bg_rgb), "ret")
  /\ UNCHANGED <<brand_arg, vhs_ok, cache, renders, probe>>

\* generate returns (its last print()), back in main's loop
generate_end ==
  /\ pc = "ret"
  /\ out' = out \o <<Line("")>>
  /\ pc' = "call"
  /\ UNCHANGED <<brand_arg, vhs_ok, todo, cur, i, cache, renders, fs, nwrites,
                 failure, probe>>

\* main: print("Done.")
main_done ==
  /\ pc = "call"
  /\ todo = <<>>
  /\ out' = out \o <<Line("Done.")>>
  /\ pc' = "done"
  /\ UNCHANGED <<brand_arg, vhs_ok, todo, cur, i, cache, renders, fs, nwrites,
                 failure, probe>>

Next ==
  \/ main
  \/ generate_begin
  \/ GenIcons
  \/ GenLaunchLogo
  \/ GenLaunchBG
  \/ GenTvosIcon
  \/ GenTvosStore
  \/ GenTopShelf
  \/ write_accent_colorset
  \/ write_launch_bg_colorset
  \/ generate_end
  \/ main_done

Spec == Init /\ [][Next]_vars

\* ------------------------------------------- the script run more than once

MaxRuns == 2

\* the completed invocations so far: each ends with main's "Done."
Runs == Cardinality({k \in DOMAIN out : out[k] = Line("Done.")})

\* the script invoked again with the same selector after a completed run:
\* a new process, so nothing of the old one is left but the files on disk
\* (and the lines already on the terminal)
main_again ==
  /\ pc = "done"
  /\ Runs < MaxRuns
  /\ pc' = "main"
  /\ vhs_ok' \in BOOLEAN
  /\ todo' = <<>>
  /\ cur' = "none"
  /\ i' = 0
  /\ cache' = <<>>
  /\ renders' = 0
  /\ nwrites' = <<>>
  /\ failure' = "none"
  /\ UNCHANGED <<brand_arg, fs, out, probe>>

RerunNext ==
  \/ main
  \/ generate_begin
  \/ GenIcons
  \/ GenLaunchLogo
  \/ GenLaunchBG
  \/ GenTvosIcon
  \/ GenTvosStore
  \/ GenTopShelf
  \/ write_accent_colorset
  \/ write_launch_bg_colorset
  \/ generate_end
  \/ main_done
  \/ main_again

RerunSpec == Init /\ [][RerunNext]_vars

\* ------------------------------------------------------- pixels of images

\* the pixel (x, y) of the image a composer returned
PixelOf(img, x, y) ==
  LET brand == BRANDS[img.brand]
  IN CASE img.fn = "create_app_icon" -> create_app_icon(img.w, brand, x, y)
       [] img.fn = "create_launch_logo" -> create_launch_logo(img.w, brand, x, y)
       [] img.fn = "create_tvos_back" ->
            create_tvos_back(img.w, img.h, brand, x, y)
       [] img.fn = "create_tvos_front" ->
            create_tvos_front(img.w, img.h, brand, x, y)
       [] img.fn = "create_tvos_middle" -> Transparent
       [] img.fn = "create_shelf_image" ->
            create_shelf_image(img.w, img.h, brand, x, y)
       [] img.fn = "launch_bg" -> Px("canvas", launch_bg_fill(img.brand), 255)
       [] img.fn = "create_crt_icon" -> create_crt_icon(img.w, brand, x, y)
       [] img.fn = "create_crt_tvos_back" ->
            create_crt_tvos_back(img.w, img.h, brand, x, y)
       [] img.fn = "create_crt_tvos_front" ->
            create_crt_tvos_front(img.w, img.h, brand, x, y)
       [] img.fn = "create_crt_launch_logo" ->
            create_crt_launch_logo(img.w, brand, x, y)
       [] img.fn = "create_crt_shelf_image" ->
            create_crt_shelf_image(img.w, img.h, brand, x, y)
       [] OTHER -> Unfixed("vhs")

\* ------------------------------------------- the drawing functions, probed

\* the pixels looked at: a grid of GridN + 1 lines each way, the borders,
\* the centre, the lines around the mask's corner arcs; every pixel of the
\* images up to FullScan wide
GridN == 8
FullScan == 32
MaxRef == 450

Coords(n, r) ==
  IF n <= FullScan THEN 0..(n - 1)
  ELSE ({0, 1, n - 2, n - 1, n \div 2 - 1, n \div 2}
        \cup {(k * (n - 1)) \div GridN : k \in 0..GridN}
        \cup {r \div 4, r \div 2, r - 1, r, r + 1,
              n - r - 1, n - r, n - r + 1, n - r \div 2, n - r \div 4})
       \cap 0..(n - 1)

Corners(w, h) == {<<0, 0>>, <<w - 1, 0>>, <<0, h - 1>>, <<w - 1, h - 1>>}

KeySet == {BrandKeys[k] : k \in 1..Len(BrandKeys)}

ProbeOf(img, x, y) ==
  [fn |-> img.fn, key |-> img.brand, w |-> img.w, h |-> img.h,
   mode |-> img.mode, x |-> x, y |-> y, px |-> PixelOf(img, x, y)]

\* a pixel of an app icon generate renders
ProbeIcon ==
  /\ probe = NoProbe
  /\ \E key \in KeySet, k \in 1..Len(icon_sizes) :
       LET step == IconSteps(key)[k]
           r == IntOf(22, 100, Frac(step.w, 1))
       IN \E x \in Coords(step.w, r), y \in Coords(step.h, r) :
            probe' = ProbeOf(Compose(step.fn, step.w, step.h, key, TRUE), x, y)
  /\ UNCHANGED <<brand_arg, vhs_ok, pc, todo, cur, i, cache, renders, fs,
                 nwrites, out, failure>>

\* the canvases generate has create_radial_gradient fill
GradientSizes ==
  {<<icon_sizes[k][2], icon_sizes[k][2]>> : k \in 1..Len(icon_sizes)}
  \cup {<<launch_logo_sizes[k][2], launch_logo_sizes[k][2]>> :
          k \in 1..Len(launch_logo_sizes)}
  \cup {<<tvos_sizes[k][1], tvos_sizes[k][2]>> : k \in 1..Len(tvos_sizes)}
  \cup {<<1280, 768>>}
  \cup {<<IntOf(6, 10, Frac(ShelfSteps("nexuspvr")[k].h, 1)),
          IntOf(6, 10, Frac(ShelfSteps("nexuspvr")[k].h, 1))>> : k \in 1..4}

\* a pixel of create_radial_gradient: the centre, a corner, a grid point
ProbeGradient ==
  /\ probe = NoProbe
  /\ \E key \in KeySet, wh \in GradientSizes :
       \E xy \in Corners(wh[1], wh[2])
                 \cup {<<wh[1] \div 2, wh[2] \div 2>>}
                 \cup {<<(k * (wh[1] - 1)) \div GridN, (k * (wh[2] - 1)) \div GridN>> :
                         k \in 0..GridN} :
         probe' =
           [fn |-> "create_radial_gradient", key |-> key, w |-> wh[1],
            h |-> wh[2], mode |-> "RGB", x |-> xy[1], y |-> xy[2],
            px |-> Px("gradient",
                      create_radial_gradient(wh[1], wh[2],
                                             BRANDS[key].gradient_center,
                                             BRANDS[key].gradient_edge,
                                             xy[1], xy[2]), 255)]
  /\ UNCHANGED <<brand_arg, vhs_ok, pc, todo, cur, i, cache, renders, fs,
                 nwrites, out, failure>>

\* a pixel of a top-shelf image generate renders
ProbeShelf ==
  /\ probe = NoProbe
  /\ \E key \in KeySet, k \in 1..4 :
       LET step == ShelfSteps(key)[k]
       IN \E x \in Coords(step.w, 0), y \in Coords(step.h, 0) :
            probe' = ProbeOf(Compose(step.fn, step.w, step.h, key, TRUE), x, y)
  /\ UNCHANGED <<brand_arg, vhs_ok, pc, todo, cur, i, cache, renders, fs,
                 nwrites, out, failure>>

\* the radii _draw_crt_on uses at scale s = n / 200
ProbeCrtRadii ==
  /\ probe = NoProbe
  /\ \E n \in 1..MaxRef :
       LET s == Frac(n, 200)
       IN probe' = [fn |-> "_draw_crt_on", n |-> n, ref |-> IntOf(200, 1, s),
                    rec_r |-> crt_rec_r(s), kr |-> crt_kr(s)]
  /\ UNCHANGED <<brand_arg, vhs_ok, pc, todo, cur, i, cache, renders, fs,
                 nwrites, out, failure>>

PixelInit ==
  /\ brand_arg = "all"
  /\ vhs_ok = TRUE
  /\ pc = "main"
  /\ todo = <<>>
  /\ cur = "none"
  /\ i = 0
  /\ cache = <<>>
  /\ renders = 0
  /\ fs = <<>>
  /\ nwrites = <<>>
  /\ out = <<>>
  /\ failure = "none"
  /\ probe = NoProbe

PixelNext == ProbeIcon \/ ProbeGradient \/ ProbeShelf \/ ProbeCrtRadii

PixelSpec == PixelInit /\ [][PixelNext]_vars

\* ================================================================ claims

Near(rgb, target, tol) == \A ch \in 1..3 : Abs(rgb[ch] - target[ch]) <= tol

Fixed(px) == "rgb" \in DOMAIN px

Range(f) == {f[k] : k \in DOMAIN f}

\* ------------------------------------------------------------------- C1

IconPath1024 == PathOf("nexuspvr", <<"AppIcon.appiconset">>, "AppIcon-1024.png")

C1_Produced == IconPath1024 \in Written /\ IsImage(fs[IconPath1024])

\* C1 as stated: the nexuspvr AppIcon-1024.png is a 1024x1024 opaque RGB
\* image whose centre pixel (512, 512) is within 1 per channel of
\* gradient_center = (42, 107, 153).
C1_CenterIsGradientCenter ==
  C1_Produced =>
    LET img == fs[IconPath1024]
        px == PixelOf(img, 512, 512)
    IN /\ img.w = 1024 /\ img.h = 1024 /\ img.mode = "RGB"
       /\ Fixed(px)
       /\ Near(px.rgb, BRANDS["nexuspvr"].gradient_center, 1)

\* C1 amended: the nexuspvr AppIcon-1024.png is a 1024x1024 opaque RGB image;
\* the gradient layer has exactly gradient_center at (512, 512), but the
\* play triangle composited on top covers that pixel, which is opaque white
\* (255, 255, 255) in the icon.
C1_CenterIsPlayButton ==
  C1_Produced =>
    LET img == fs[IconPath1024]
        brand == BRANDS["nexuspvr"]
    IN /\ img.w = 1024 /\ img.h = 1024 /\ img.mode = "RGB"
       /\ create_radial_gradient(1024, 1024, brand.gradient_center,
                                 brand.gradient_edge, 512, 512)
            = <<42, 107, 153>>
       /\ PixelOf(img, 512, 512) = Px("play", <<255, 255, 255>>, 255)

C1_Witness ==
  /\ C1_Produced
  /\ brand_arg = "nexuspvr"
  /\ pc = "done"

\* ------------------------------------------------------------------- C2

IsIconProbe == probe.fn \in {"create_app_icon", "create_crt_icon"}

MaskRadius(n) == (22 * n) \div 100

\* the arc centre of the corner square the pixel lies in, if it lies in one
ArcCentres(n, r, x, y) ==
  {c \in {r, n - r} \X {r, n - r} :
     /\ (IF c[1] = r THEN x < r ELSE x > n - r)
     /\ (IF c[2] = r THEN y < r ELSE y > n - r)}

Dist2(c, x, y) == (x - c[1]) * (x - c[1]) + (y - c[2]) * (y - c[2])

\* at least a pixel outside the corner arc
InCornerCut(n, x, y) ==
  \E c \in ArcCentres(n, MaskRadius(n), x, y) :
    Dist2(c, x, y) >= (MaskRadius(n) + 1) * (MaskRadius(n) + 1)

\* at least a pixel inside the rounded rectangle
StrictlyInside(n, x, y) ==
  \A c \in ArcCentres(n, MaskRadius(n), x, y) :
    Dist2(c, x, y) <= (MaskRadius(n) - 1) * (MaskRadius(n) - 1)

\* no foreground element reaches the probed pixel
NoForeground ==
  IF probe.fn = "create_app_icon"
  THEN /\ draw_play_button(probe.w, probe.h, Frac(probe.w * 5, 2048),
                           probe.x, probe.y) = "out"
       /\ draw_recording_dot(probe.w, probe.h, Frac(probe.w * 5, 2048),
                             probe.x, probe.y) = "out"
  ELSE \A box \in crt_boxes(probe.w, probe.h, Frac(probe.w, 200)) :
         ~InBox(box, probe.x, probe.y)

GradientAtProbe ==
  create_radial_gradient(probe.w, probe.h,
                         BRANDS[probe.key].gradient_center,
                         BRANDS[probe.key].gradient_edge, probe.x, probe.y)

\* C2 as stated: at every manifest icon size and for every brand, a pixel in
\* a corner-cut region is transparent or background, not taken from the
\* gradient layer, and a pixel strictly inside the rounded rectangle that no
\* foreground element covers has the gradient layer's colour at its position.
C2_RoundedEveryBrand ==
  IsIconProbe =>
    /\ InCornerCut(probe.w, probe.x, probe.y) =>
         probe.px.layer \in {"fill", "bg", "canvas", "transparent"}
    /\ (StrictlyInside(probe.w, probe.x, probe.y) /\ NoForeground) =>
         (Fixed(probe.px) /\ probe.px.rgb = GradientAtProbe)

\* C2 amended: for the play-button theme (nexuspvr), at every manifest icon
\* size, a pixel in a corner-cut region has the opaque flat fill
\* gradient_edge, and a pixel strictly inside the rounded rectangle that no
\* foreground element covers has the gradient layer's colour at its
\* position.  The CRT theme (dispatcherpvr) has neither mask nor gradient:
\* every pixel of its icon that no CRT element covers, corner-cut or inside,
\* is CRT_BG.
C2_RoundedPlayTheme ==
  IsIconProbe =>
    IF probe.key = "nexuspvr"
    THEN /\ probe.fn = "create_app_icon"
         /\ InCornerCut(probe.w, probe.x, probe.y) =>
              probe.px = Px("fill", BRANDS[probe.key].gradient_edge, 255)
         /\ (StrictlyInside(probe.w, probe.x, probe.y) /\ NoForeground) =>
              probe.px = Px("gradient", GradientAtProbe, 255)
    ELSE /\ probe.fn = "create_crt_icon"
         /\ NoForeground => probe.px = Px("bg", CRT_BG, 255)

C2_Witness ==
  /\ probe.fn = "create_app_icon"
  /\ probe.w = 1024
  /\ InCornerCut(probe.w, probe.x, probe.y)
  /\ probe.px.layer = "fill"
  /\ probe.px.rgb # GradientAtProbe

\* ------------------------------------------------------------------- C3

IsGradientProbe == probe.fn = "create_radial_gradient"

AtCentre == probe.x = probe.w \div 2 /\ probe.y = probe.h \div 2
AtCorner == <<probe.x, probe.y>> \in Corners(probe.w, probe.h)

\* C3 as stated: at every canvas size the orchestrator uses, 16x16 included,
\* the gradient's centre pixel equals the centre colour and each of the four
\* corner pixels is within 1 per channel of the edge colour.
C3_CornersWithinOne ==
  IsGradientProbe =>
    /\ AtCentre => probe.px.rgb = BRANDS[probe.key].gradient_center
    /\ AtCorner => Near(probe.px.rgb, BRANDS[probe.key].gradient_edge, 1)

\* C3 amended: at every canvas size the orchestrator uses, the centre pixel
\* equals the centre colour and the corner (0, 0) equals the edge colour; the
\* other three corners are within 1 per channel of the edge colour on the
\* canvases whose shorter side is at least 120 pixels, and within 9 per
\* channel on the smaller ones (icon sizes 16, 32 and 64).
C3_CornersBySize ==
  IsGradientProbe =>
    /\ AtCentre => probe.px.rgb = BRANDS[probe.key].gradient_center
    /\ (probe.x = 0 /\ probe.y = 0) =>
         probe.px.rgb = BRANDS[probe.key].gradient_edge
    /\ AtCorner =>
         Near(probe.px.rgb, BRANDS[probe.key].gradient_edge,
              IF Min(probe.w, probe.h) >= 120 THEN 1 ELSE 9)

C3_Witness ==
  /\ IsGradientProbe
  /\ probe.w = 16 /\ probe.x = 15 /\ probe.y = 15
  /\ ~Near(probe.px.rgb, BRANDS[probe.key].gradient_edge, 8)

\* ------------------------------------------------------------------- C4

LaunchBgPath(key, k) ==
  PathOf(key, <<"LaunchBG.imageset">>, launch_bg_sizes[k][1])

LaunchBgWritten(key, k) ==
  LaunchBgPath(key, k) \in Written /\ IsImage(fs[LaunchBgPath(key, k)])

\* the pixels looked at in a flat image
FlatProbes(n) == Corners(n, n) \cup {<<n \div 2, n \div 2>>, <<1, n - 2>>}

LaunchBgFilled(key, k, rgb) ==
  LET img == fs[LaunchBgPath(key, k)]
  IN /\ img.w = launch_bg_sizes[k][2] /\ img.h = launch_bg_sizes[k][2]
     /\ img.mode = "RGB"
     /\ \A xy \in FlatProbes(img.w) :
          PixelOf(img, xy[1], xy[2]) = Px("canvas", rgb, 255)

\* C4 as stated: for both brands, each of the three launch-background
\* images is filled with the brand's launch_bg_rgb scaled to 0-255, the
\* colour of LaunchBackground.colorset.
C4_FillIsLaunchBgColor ==
  \A key \in KeySet, k \in 1..Len(launch_bg_sizes) :
    LaunchBgWritten(key, k) =>
      LaunchBgFilled(key, k, launch_bg_255(BRANDS[key]))

\* C4 amended: each of the three launch-background images is a flat fill:
\* for nexuspvr of launch_bg_rgb scaled to 0-255, (15, 15, 15); for
\* dispatcherpvr of CRT_BG = (14, 31, 21), which is not the colour of its
\* LaunchBackground.colorset, (18, 18, 19).
C4_FillByTheme ==
  \A key \in KeySet, k \in 1..Len(launch_bg_sizes) :
    LaunchBgWritten(key, k) =>
      IF key = "dispatcherpvr"
      THEN /\ LaunchBgFilled(key, k, <<14, 31, 21>>)
           /\ launch_bg_255(BRANDS[key]) = <<18, 18, 19>>
      ELSE /\ LaunchBgFilled(key, k, launch_bg_255(BRANDS[key]))
           /\ launch_bg_255(BRANDS[key]) = <<15, 15, 15>>

C4_Witness ==
  /\ LaunchBgWritten("dispatcherpvr", 3)
  /\ LaunchBgWritten("nexuspvr", 1)

\* ------------------------------------------------------------------- C5

IsShelfProbe ==
  probe.fn \in {"create_shelf_image", "create_crt_shelf_image"}

\* C5: in every top-shelf image, of either theme, each of the four corner
\* pixels has the brand's dark background colour, launch_bg_rgb scaled to
\* 0-255.
C5_ShelfCornersAreLaunchBg ==
  (IsShelfProbe /\ AtCorner) =>
    (Fixed(probe.px) /\ probe.px.rgb = launch_bg_255(BRANDS[probe.key]))

\* ------------------------------------------------------------------- C6

ColorsetWritten(path) == path \in Written /\ IsColorset(fs[path])

Components(r, g, b) ==
  [color |->
     [color_space |-> "srgb",
      components |->
        [alpha |-> "1.000", blue |-> b, green |-> g, red |-> r]],
   idiom |-> "universal"]

\* generate(key) has run to its end
Generated(key) ==
  \/ cur = key /\ pc \in {"ret", "call", "done"}
  \/ \E k \in 1..Len(BrandKeys) :
       /\ BrandKeys[k] = cur
       /\ \E j \in 1..(k - 1) : BrandKeys[j] = key /\ brand_arg = "all"

\* C6: the accent colorset has no "color" key under colors[0] when the brand
\* has no accent colour (nexuspvr) and otherwise the components formatted to
\* three decimals with alpha "1.000" (dispatcherpvr: 0.263, 0.561, 0.498);
\* the launch-background colorset always has the colour object (nexuspvr:
\* 0.059 three times); each is written exactly once per generated brand.
C6_Colorsets ==
  /\ ColorsetWritten(AccentPath("nexuspvr")) =>
       /\ BRANDS["nexuspvr"].accent_rgb = None
       /\ fs[AccentPath("nexuspvr")].colors = << [idiom |-> "universal"] >>
       /\ "color" \notin DOMAIN fs[AccentPath("nexuspvr")].colors[1]
  /\ ColorsetWritten(AccentPath("dispatcherpvr")) =>
       fs[AccentPath("dispatcherpvr")].colors
         = << Components("0.263", "0.561", "0.498") >>
  /\ ColorsetWritten(LaunchBgColorsetPath("nexuspvr")) =>
       fs[LaunchBgColorsetPath("nexuspvr")].colors
         = << Components("0.059", "0.059", "0.059") >>
  /\ ColorsetWritten(LaunchBgColorsetPath("dispatcherpvr")) =>
       fs[LaunchBgColorsetPath("dispatcherpvr")].colors
         = << Components("0.071", "0.071", "0.078") >>
  /\ \A key \in KeySet :
       \A path \in {AccentPath(key), LaunchBgColorsetPath(key)} :
         /\ Count(nwrites, path) <= 1
         /\ Generated(key) =>
              (Count(nwrites, path) = 1 /\ ColorsetWritten(path))

C6_Witness ==
  /\ brand_arg = "all"
  /\ pc = "done"
  /\ ColorsetWritten(AccentPath("nexuspvr"))
  /\ ColorsetWritten(AccentPath("dispatcherpvr"))

\* ------------------------------------------------------------------- C7

\* C7: at every scale whose int(200 * s) is at most 32 the REC-dot radius
\* and the knob radius are at least 1; at every larger scale the dot radius
\* is at least 1 and the knob radius at least 2.
C7_RadiiFloors ==
  probe.fn = "_draw_crt_on" =>
    IF probe.ref <= 32
    THEN probe.rec_r >= 1 /\ probe.kr >= 1
    ELSE probe.rec_r >= 1 /\ probe.kr >= 2

C7_Witness ==
  /\ probe.fn = "_draw_crt_on"
  /\ probe.ref = 16
  /\ probe.rec_r = 1
  /\ probe.kr = 1

\* ------------------------------------------------------------------- C8

\* C8: the dispatcherpvr app icon is, at every manifest size, an opaque RGB
\* image from the CRT composer whose four corner pixels are CRT_BG =
\* (14, 31, 21): no CRT element reaches a corner.
C8_CrtIconCorners ==
  (IsIconProbe /\ probe.key = "dispatcherpvr" /\ AtCorner) =>
    /\ probe.fn = "create_crt_icon"
    /\ probe.mode = "RGB"
    /\ probe.px = Px("bg", <<14, 31, 21>>, 255)

C8_Witness ==
  /\ IsIconProbe /\ probe.key = "dispatcherpvr"
  /\ probe.w = 1024 /\ probe.x = 1023 /\ probe.y = 1023
  /\ probe.px.rgb = CRT_BG

\* ------------------------------------------------------------------- C9

\* the brands main had not yet passed to generate
NotStarted == Range(todo)

\* C9: a failed write ends the run: nothing is written or printed after it,
\* "Done." is never printed, the files on disk are those of the saves up to
\* the failed one, none belongs to a brand not yet started, and the files
\* written before the failure remain as they were.
C9_FailureIsFatal ==
  /\ [](failure # "none" =>
          /\ pc = "aborted"
          /\ Line("Done.") \notin Range(out)
          /\ \A p \in Written : \A key \in NotStarted :
               p[1] # BRANDS[key].assets_dir)
  /\ [][failure # "none" => UNCHANGED <<fs, nwrites, out, pc>>]_vars
  /\ [][\A p \in DOMAIN fs : p \in DOMAIN fs' /\ fs'[p] = fs[p]]_vars

C9_Witness ==
  /\ pc = "aborted"
  /\ failure = "write"
  /\ brand_arg = "all"
  /\ cur = "nexuspvr"
  /\ todo = <<"dispatcherpvr">>
  /\ Written # {}

\* ------------------------------------------------------------------ C10

\* C10 as stated: with the VHS source image missing, a run never completes
\* and prints "Done.".
C10_MissingVhsAborts ==
  ~vhs_ok => (pc # "done" /\ Line("Done.") \notin Range(out))

\* C10 amended: a VHS composer raises an I/O error when the VHS source image
\* is missing, but generate dispatches no brand to a VHS composer: no run
\* reads the image, no run aborts for it, and a run aborts only when a write
\* fails.
C10_VhsNeverRead ==
  /\ failure # "vhs"
  /\ pc = "aborted" => failure = "write"
  /\ \A p \in Written : IsImage(fs[p]) => fs[p].fn \notin VhsComposers
  /\ Compose("create_vhs_icon", 16, 16, "dispatcherpvr", FALSE) = IOError

C10_Witness ==
  /\ ~vhs_ok
  /\ pc = "done"
  /\ brand_arg = "all"
  /\ Line("Done.") \in Range(out)

\* ------------------------------------------------------------------ C11

\* the brand keys a selector stands for
Keys(sel) == IF sel = "all" THEN KeySet ELSE {sel}

\* every image save of generate(key), in program order
AllSteps(key) ==
  IconSteps(key) \o LogoSteps(key) \o BgSteps(key) \o TvSteps(key)
    \o TvStoreSteps(key) \o ShelfSteps(key)

ImagePaths(key) ==
  {PathOf(key, AllSteps(key)[k].dir, AllSteps(key)[k].file) :
     k \in 1..Len(AllSteps(key))}

OutputPaths(key) ==
  ImagePaths(key) \cup {AccentPath(key), LaunchBgColorsetPath(key)}

\* the image a step yields, from the brand key, the composer and the size
StepImage(key, st) ==
  Saved(Img(st.fn, st.w, st.h, key, ModeOf(st.fn)), st.force_rgb)

\* the disk holds exactly the outputs of the brands of sel, each with the
\* content fixed by the brand table and the target size
DiskIsOutputOf(sel) ==
  /\ Written = UNION {OutputPaths(key) : key \in Keys(sel)}
  /\ \A key \in Keys(sel) :
       /\ \A k \in 1..Len(AllSteps(key)) :
            LET st == AllSteps(key)[k]
            IN fs[PathOf(key, st.dir, st.file)] = StepImage(key, st)
       /\ fs[AccentPath(key)] = accent_colorset_data(BRANDS[key].accent_rgb)
       /\ fs[LaunchBgColorsetPath(key)] =
            launch_bg_colorset_data(BRANDS[key].launch_bg_rgb)

\* C11: generation is deterministic and idempotent: for every selector,
\* whenever a run completes, the first or one started over the files of an
\* earlier completed run, the disk holds exactly the same paths with the same
\* contents, each a function of the brand table and the target size alone;
\* whether the VHS source image exists makes no difference.
C11_Idempotent ==
  /\ pc = "done" => DiskIsOutputOf(brand_arg)
  /\ (pc = "main" /\ Runs > 0) => DiskIsOutputOf(brand_arg)
  /\ \A key \in KeySet : \A k \in 1..Len(AllSteps(key)) :
       LET st == AllSteps(key)[k]
       IN \A v \in BOOLEAN :
            Saved(Compose(st.fn, st.w, st.h, key, v), st.force_rgb)
              = StepImage(key, st)

C11_Witness ==
  /\ pc = "done"
  /\ Runs = MaxRuns
  /\ brand_arg = "all"
  /\ DiskIsOutputOf("all")

\* ------------------------------------------------------------------ C12

\* a generate call has been entered
InGenerate == cur # "none"

\* the running (or last) generate call is past its "App Icons" loop
IconsDone == InGenerate /\ pc \notin {"icons", "aborted"}

\* the manifest entries the "App Icons" loop has already been through
IconsSaved ==
  IF pc = "icons" THEN 1..(i - 1)
  ELSE IF pc = "aborted" THEN {} ELSE 1..Len(icon_sizes)

IconPath(key, k) == PathOf(key, <<"AppIcon.appiconset">>, icon_sizes[k][1])

\* C12: within a generate call the icon composer runs once per distinct
\* pixel size of the manifest (7 renders for its 11 entries); every entry is
\* saved from the cached image of its own size, so entries of one size get
\* the same content; the cached images stay what the composer returned (save
\* does not change them); and the cache starts empty in each generate call:
\* it only ever holds images of the brand being generated.
C12_CacheOncePerSize ==
  InGenerate =>
    /\ renders = Cardinality(DOMAIN cache)
    /\ DOMAIN cache \subseteq IconSizeSet
    /\ \A sz \in DOMAIN cache :
         cache[sz] = Img(IconFn(cur), sz, sz, cur, "RGB")
    /\ \A k \in IconsSaved :
         /\ icon_sizes[k][2] \in DOMAIN cache
         /\ IconPath(cur, k) \in Written
         /\ fs[IconPath(cur, k)] = cache[icon_sizes[k][2]]
    /\ \A k, l \in IconsSaved :
         icon_sizes[k][2] = icon_sizes[l][2]
           => fs[IconPath(cur, k)] = fs[IconPath(cur, l)]
    /\ IconsDone =>
         /\ renders = 7
         /\ Len(icon_sizes) = 11
         /\ DOMAIN cache = IconSizeSet

C12_Witness ==
  /\ brand_arg = "all"
  /\ cur = "dispatcherpvr"
  /\ pc = "logo"
  /\ renders = 7
  /\ Cardinality(DOMAIN cache) = 7
  /\ fs[IconPath(cur, 1)] = fs[IconPath(cur, 2)]
  /\ IconPath("nexuspvr", 1) \in Written

\* ------------------------------------------------------------------ C13

\* the paths a sequence of image saves of generate(key) writes
StepPaths(key, steps) ==
  {PathOf(key, steps[k].dir, steps[k].file) : k \in DOMAIN steps}

ColorsetPaths(key) == {AccentPath(key), LaunchBgColorsetPath(key)}

\* the paths of generate(key) by category, with the number of writes of each
Categories(key) ==
  << <<StepPaths(key, IconSteps(key)), Len(IconSteps(key)), 11>>,
     <<StepPaths(key, LogoSteps(key)), Len(LogoSteps(key)), 3>>,
     <<StepPaths(key, BgSteps(key)), Len(BgSteps(key)), 3>>,
     <<StepPaths(key, TvSteps(key)), Len(TvSteps(key)), 6>>,
     <<StepPaths(key, TvStoreSteps(key)), Len(TvStoreSteps(key)), 3>>,
     <<StepPaths(key, ShelfSteps(key)), Len(ShelfSteps(key)), 4>>,
     <<ColorsetPaths(key), 2, 2>> >>

\* C13: within one invocation no path is written more than once: the writes
\* of a brand (11 icons, 3 launch logos, 3 launch backgrounds, 6 tvOS
\* app-icon layers, 3 tvOS store-icon layers, 4 top-shelf images, 2
\* colorsets) go to 32 pairwise distinct paths, the path sets of the two
\* brands are disjoint, and a completed run has written each path of its
\* brands exactly once, so each file holds the content of its only write.
C13_WrittenOnce ==
  /\ \A p \in DOMAIN nwrites : nwrites[p] = 1
  /\ \A key \in KeySet :
       /\ \A c \in 1..Len(Categories(key)) :
            /\ Categories(key)[c][2] = Categories(key)[c][3]
            /\ Cardinality(Categories(key)[c][1]) = Categories(key)[c][3]
       /\ \A c, d \in 1..Len(Categories(key)) :
            c # d => Categories(key)[c][1] \cap Categories(key)[d][1] = {}
       /\ Cardinality(OutputPaths(key)) = 32
  /\ \A key, other \in KeySet :
       key # other => OutputPaths(key) \cap OutputPaths(other) = {}
  /\ pc = "done" =>
       /\ DOMAIN nwrites = UNION {OutputPaths(key) : key \in Keys(brand_arg)}
       /\ Written = DOMAIN nwrites
       /\ Cardinality(Written) = 32 * Cardinality(Keys(brand_arg))

C13_Witness ==
  /\ pc = "done"
  /\ brand_arg = "all"
  /\ Cardinality(DOMAIN nwrites) = 64
  /\ \A p \in DOMAIN nwrites : nwrites[p] = 1

====
